---------------------------- MODULE Spec2Model ----------------------------
(***************************************************************************)
(* A model of scripts/python/framework/analyzer.py: the safe loader, the   *)
(* signature / docstring cascade of the metadata extractor, and the        *)
(* package-tree traversal of analyze_library.                              *)
(*                                                                         *)
(* Python strings are sequences of one-character strings, so that strip,   *)
(* split, startswith, endswith and the f-string key are computed, not      *)
(* assumed.  None and "" are both the empty sequence where the code only   *)
(* tests truthiness (text_sig, doc).                                       *)
(***************************************************************************)
EXTENDS Naturals, Sequences, FiniteSets

VARIABLES
  \* ---- one call of get_function_metadata / one method of get_class_metadata
  func,          \* the callable handed to the extractor
  meta,          \* the record the extractor returned
  mpc,           \* "ready" | "function" | "method" | "method_raised"
  \* ---- one call of analyze_library
  include_only,  \* the caller's allow-list argument
  pc,            \* "start" | "walk" | "done" | "raised"
  functions,     \* dict fn_name -> FunctionRecord, in insertion order
  classes,       \* dict "module.name" -> ClassRecord, in insertion order
  todo,          \* names pkgutil.walk_packages has still to yield, in order
  sys_modules,   \* modules that are loaded (sys.modules)
  importLog,     \* modules whose code an import statement has executed
  visited,       \* modules visit() was called on, in order
  candidates,    \* the (dict, key, object) visit() met at lines 154 / 164, in order
  raisedAt,      \* where an exception left analyze_library
  result         \* what analyze_library returned

metaVars == <<func, meta, mpc>>
walkVars == <<include_only, pc, functions, classes, todo, sys_modules,
              importLog, visited, candidates, raisedAt, result>>
vars == <<func, meta, mpc, include_only, pc, functions, classes, todo,
          sys_modules, importLog, visited, candidates, raisedAt, result>>

-----------------------------------------------------------------------------
(* Bounds of the model. *)

\* longest textual signature / captured docstring argument text drawn
MaxLen == 3
\* most members one module exposes to inspect.getmembers
MaxMembers == 2

-----------------------------------------------------------------------------
(* str helpers *)

Whitespace == {" ", "\n"}

RECURSIVE lstrip(_, _)
lstrip(s, cs) ==
  IF s # <<>> /\ Head(s) \in cs THEN lstrip(Tail(s), cs) ELSE s

RECURSIVE rstrip(_, _)
rstrip(s, cs) ==
  IF s # <<>> /\ s[Len(s)] \in cs THEN rstrip(SubSeq(s, 1, Len(s) - 1), cs) ELSE s

\* str.strip(chars); str.strip() is strip(s, Whitespace)
strip(s, cs) == rstrip(lstrip(s, cs), cs)

\* c in s
contains(s, c) == \E i \in 1..Len(s) : s[i] = c

\* index of the first c in s (s contains c)
find(s, c) == CHOOSE i \in 1..Len(s) : s[i] = c /\ \A j \in 1..(i - 1) : s[j] # c

\* s.split(c): always at least one piece
RECURSIVE split(_, _)
split(s, c) ==
  IF contains(s, c)
  THEN <<SubSeq(s, 1, find(s, c) - 1)>> \o split(SubSeq(s, find(s, c) + 1, Len(s)), c)
  ELSE <<s>>

startswith(s, p) == Len(p) <= Len(s) /\ SubSeq(s, 1, Len(p)) = p

endswith(s, p) == Len(p) <= Len(s) /\ SubSeq(s, Len(s) - Len(p) + 1, Len(s)) = p

\* sum(pred(x) for x in seq) for a sequence of booleans
RECURSIVE count_true(_)
count_true(bs) ==
  IF bs = <<>> THEN 0 ELSE (IF Head(bs) THEN 1 ELSE 0) + count_true(Tail(bs))

Separators == {<<"/">>, <<"*">>}

-----------------------------------------------------------------------------
(* parse_text_signature, lines 40-51 *)

\* the variant that also drops a token whose name part is empty
parse_text_signature_drop_unnamed(sig) ==
  IF sig = <<>> THEN <<>>
  ELSE LET body   == strip(strip(sig, Whitespace), {"(", ")"})
           toks   == split(body, ",")
           arg(i) == strip(toks[i], Whitespace)
           nm(i)  == strip(split(arg(i), "=")[1], Whitespace)
           kept   == SelectSeq([i \in 1..Len(toks) |-> i],
                            LAMBDA i : arg(i) \notin Separators /\ arg(i) # <<>>
                                       /\ nm(i) # <<>>)
       IN  [k \in 1..Len(kept) |-> nm(kept[k])]

parse_text_signature(sig) ==
  IF sig = <<>> THEN <<>>
  ELSE LET body   == strip(strip(sig, Whitespace), {"(", ")"})
           toks   == split(body, ",")
           arg(i) == strip(toks[i], Whitespace)
           kept   == SelectSeq([i \in 1..Len(toks) |-> i],
                            LAMBDA i : arg(i) \notin Separators /\ arg(i) # <<>>)
       IN  [k \in 1..Len(kept) |-> strip(split(arg(kept[k]), "=")[1], Whitespace)]

-----------------------------------------------------------------------------
(* _count_optional and _parse_sig, lines 54-69 *)

\* inspect.Parameter: [name, has_default, kind]
_count_optional(p) ==
  p.has_default \/ p.kind \in {"VAR_POSITIONAL", "VAR_KEYWORD"}

\* What inspect.signature(obj) does is a property of obj: it returns the
\* parameters ("ok"), raises TypeError or ValueError ("ValueError"), or raises
\* another exception ("RuntimeError").
_parse_sig(obj) ==
  CASE obj.sig = "ok" ->
         [raised |-> FALSE,
          args   |-> [i \in 1..Len(obj.params) |-> obj.params[i].name],
          opt    |-> count_true([i \in 1..Len(obj.params) |-> _count_optional(obj.params[i])])]
    [] obj.sig = "ValueError" ->
         [raised |-> FALSE, args |-> <<>>, opt |-> 0]
    [] OTHER ->
         [raised |-> TRUE, args |-> <<>>, opt |-> 0]

-----------------------------------------------------------------------------
(* get_function_metadata, lines 72-98 *)

IdentStart == {"a", "b", "f", "g", "h", "x", "y", "C", "D", "_"}
IdentChar  == IdentStart \cup {"2"}

\* re.match(r"^\s*[a-zA-Z_][a-zA-Z0-9_]*\((.*?)\)", doc): optional whitespace,
\* an identifier, "(", then the shortest text up to a ")" with no newline in it.
doc_match(doc) ==
  LET d     == lstrip(doc, Whitespace)
      rest  == lstrip(d, IdentChar)
      inner == Tail(rest)
      upto  == SubSeq(inner, 1, find(inner, ")") - 1)
  IN  IF /\ d # <<>>
         /\ Head(d) \in IdentStart
         /\ rest # <<>>
         /\ Head(rest) = "("
         /\ contains(inner, ")")
         /\ ~contains(upto, "\n")
      THEN [matched |-> TRUE, group1 |-> upto]
      ELSE [matched |-> FALSE, group1 |-> <<>>]

\* lines 88-90: the docstring step's own split
doc_pieces(sig_part) ==
  LET toks == split(sig_part, ",")
      kept == SelectSeq([i \in 1..Len(toks) |-> i],
                     LAMBDA i : strip(toks[i], Whitespace) \notin Separators)
  IN  [k \in 1..Len(kept) |-> strip(toks[kept[k]], Whitespace)]

\* line 83
text_sig_opt(text_sig) ==
  LET toks == split(strip(text_sig, {"(", ")"}), ",")
  IN  count_true([i \in 1..Len(toks) |-> contains(toks[i], "=")])

get_function_metadata(f, module_name) ==
  LET sig    == _parse_sig(f)
      failed == sig.raised \/ f.doc_raises          \* lines 73-77
      args0  == IF failed THEN <<>> ELSE sig.args
      opt0   == IF failed THEN 0 ELSE sig.opt
      doc    == IF failed THEN <<>> ELSE f.doc
      m      == doc_match(doc)
      pieces == doc_pieces(m.group1)
      step   == CASE args0 # <<>>        -> "structured"
                  [] f.text_sig # <<>>   -> "text"
                  [] doc # <<>> /\ m.matched -> "doc"
                  [] OTHER               -> "none"
  IN  [name          |-> f.name,
       args          |-> CASE step = "text" -> parse_text_signature(f.text_sig)
                           [] step = "doc"  ->
                                [i \in 1..Len(pieces) |-> strip(split(pieces[i], "=")[1], Whitespace)]
                           [] OTHER         -> args0,
       optionalCount |-> CASE step = "text" -> text_sig_opt(f.text_sig)
                           [] step = "doc"  ->
                                count_true([i \in 1..Len(pieces) |-> contains(pieces[i], "=")])
                           [] OTHER         -> opt0,
       doc           |-> doc,
       module        |-> module_name]

-----------------------------------------------------------------------------
(* get_class_metadata, lines 101-120 *)

Dunder == <<"_", "_">>

\* lines 106-114: one MethodRecord
method_record(member) ==
  [name          |-> member.name,
   args          |-> _parse_sig(member).args,
   optionalCount |-> _parse_sig(member).opt,
   doc           |-> member.doc]

\* _parse_sig lets everything but TypeError and ValueError through, and
\* inspect.getdoc(member) is called outside any try
method_raises(member) == _parse_sig(member).raised \/ member.doc_raises

\* line 104: dunder methods other than __init__ are left out
is_listed_method(member) ==
  ~(/\ startswith(member.name, Dunder)
    /\ endswith(member.name, Dunder)
    /\ member.name # <<"_", "_", "i", "n", "i", "t", "_", "_">>)

get_class_metadata(cls) ==
  LET listed == SelectSeq(cls.methods, is_listed_method)
  IN  [raised |-> (\E i \in 1..Len(listed) : method_raises(listed[i])) \/ cls.doc_raises,
       rec    |-> [name    |-> cls.name,
                   doc     |-> cls.doc,
                   methods |-> [i \in 1..Len(listed) |-> method_record(listed[i])],
                   module  |-> cls.module]]

-----------------------------------------------------------------------------
(* The callables the extractor is applied to. *)

Obj(name, module, kind, sig, params, text_sig, doc_raises, doc, methods) ==
  [name |-> name, module |-> module, kind |-> kind, sig |-> sig, params |-> params,
   text_sig |-> text_sig, doc_raises |-> doc_raises, doc |-> doc, methods |-> methods]

Chars == {"a", "=", ",", "*", "/", "(", ")", " "}

Texts == UNION {[1..n -> Chars] : n \in 0..MaxLen}

\* inspect.getdoc returns a cleaned docstring: its first line has no leading blank
Docs ==
  {d \in Texts \cup {<<"f", "(">> \o t \o <<")">> : t \in Texts} :
     d = <<>> \/ d[1] # " "}

\* (a, b=1, *args, **kw) and the signatures that keep some of these parameters
AllParams ==
  << [name |-> <<"a">>, has_default |-> FALSE, kind |-> "POSITIONAL_OR_KEYWORD"],
     [name |-> <<"b">>, has_default |-> TRUE,  kind |-> "POSITIONAL_OR_KEYWORD"],
     [name |-> <<"a", "r", "g", "s">>, has_default |-> FALSE, kind |-> "VAR_POSITIONAL"],
     [name |-> <<"k", "w">>, has_default |-> FALSE, kind |-> "VAR_KEYWORD"] >>

ParamLists ==
  {SelectSeq(AllParams, LAMBDA p : p.name \in keep) :
     keep \in SUBSET {AllParams[i].name : i \in 1..Len(AllParams)}}

FewTexts == {<<>>, <<"(", "x", ",", "y", "=", "2", ")">>}
DocPQ    == <<"f", "(", "p", ",", "q", "=", "3", ")">>
FewDocs  == {<<>>, DocPQ, <<"f", "(", ")">>, <<"n", "o">>}

FuncInputs ==
       {Obj(<<"f">>, <<"n", "p">>, "function", "ok", ps, ts, dr, d, <<>>) :
          ps \in ParamLists, ts \in FewTexts, dr \in BOOLEAN, d \in FewDocs}
  \cup {Obj(<<"f">>, <<"n", "p">>, "function", sg, <<>>, ts, FALSE, DocPQ, <<>>) :
          sg \in {"ValueError", "RuntimeError"}, ts \in Texts}
  \cup {Obj(<<"f">>, <<"n", "p">>, "function", "ValueError", <<>>, <<>>, dr, d, <<>>) :
          dr \in BOOLEAN, d \in Docs}

NoFunc == Obj(<<>>, <<>>, "function", "ValueError", <<>>, <<>>, FALSE, <<>>, <<>>)
NoMeta == [name |-> <<>>, args |-> <<>>, optionalCount |-> 0, doc |-> <<>>]

-----------------------------------------------------------------------------
(* One call of the extractor on one callable. *)

InitMeta ==
  /\ func \in FuncInputs
  /\ meta = NoMeta
  /\ mpc = "ready"

\* get_function_metadata(func, module_name), as visit() calls it (line 155)
ExtractFunction ==
  /\ mpc = "ready"
  /\ meta' = get_function_metadata(func, func.module)
  /\ mpc' = "function"
  /\ UNCHANGED func
  /\ UNCHANGED walkVars

\* the body of the loop of get_class_metadata on one method (lines 106-114)
ExtractMethod ==
  /\ mpc = "ready"
  /\ ~method_raises(func)
  /\ meta' = method_record(func)
  /\ mpc' = "method"
  /\ UNCHANGED func
  /\ UNCHANGED walkVars

\* the same, when inspect.signature or inspect.getdoc raises past _parse_sig
ExtractMethodRaises ==
  /\ mpc = "ready"
  /\ method_raises(func)
  /\ mpc' = "method_raised"
  /\ UNCHANGED <<func, meta>>
  /\ UNCHANGED walkVars

-----------------------------------------------------------------------------
(* The library under analysis. *)

lib_name == <<"n", "p">>

\* line 8: ('.f2py',)
SKIP_PATTERNS == {<<".", "f", "2", "p", "y">>}

sub(parent, leaf) == parent \o <<".">> \o leaf

np_a        == sub(lib_name, <<"a">>)
np_a_f2py   == sub(np_a, <<"f", "2", "p", "y">>)
np_f2py     == sub(lib_name, <<"f", "2", "p", "y">>)
np_f2py_m   == sub(np_f2py, <<"m">>)

ModuleNames == {lib_name, np_a, np_a_f2py, np_f2py, np_f2py_m}

\* pkgutil.iter_modules(package.__path__, package.__name__ + "."): the entries
\* of the package's directory, sorted by name
iter_modules(name) ==
  CASE name = lib_name -> <<np_a, np_f2py>>
    [] name = np_a     -> <<np_a_f2py>>
    [] name = np_f2py  -> <<np_f2py_m>>
    [] OTHER           -> <<>>

ispkg(name) == iter_modules(name) # <<>>

\* what executing a module's code does: it completes, raises an Exception,
\* or calls sys.exit()
ImportBehaviours == {"ok", "Exception", "SystemExit"}

p_a == [name |-> <<"a">>, has_default |-> FALSE, kind |-> "POSITIONAL_OR_KEYWORD"]
p_b == [name |-> <<"b">>, has_default |-> TRUE,  kind |-> "POSITIONAL_OR_KEYWORD"]

Method(name, sig, params) ==
  [name |-> name, sig |-> sig, params |-> params, doc_raises |-> FALSE, doc |-> <<>>]

m_init == Method(<<"_", "_", "i", "n", "i", "t", "_", "_">>, "ok", <<p_a>>)
m_repr == Method(<<"_", "_", "r", "_", "_">>, "ok", <<>>)
m_run  == Method(<<"r">>, "ok", <<p_a, p_b>>)

\* def f(a, b=1) in np;  a builtin f with __text_signature__ "(a)" in np.a
f_np   == Obj(<<"f">>, lib_name, "function", "ok", <<p_a, p_b>>, <<>>, FALSE, <<>>, <<>>)
f_np_a == Obj(<<"f">>, np_a, "function", "ValueError", <<>>, <<"(", "a", ")">>, FALSE, <<>>, <<>>)
\* g of the unrelated library npx, h of os
g_npx  == Obj(<<"g">>, <<"n", "p", "x">>, "function", "ok", <<>>, <<>>, FALSE, <<>>, <<>>)
h_os   == Obj(<<"h">>, <<"o", "s">>, "function", "ok", <<p_a>>, <<>>, FALSE, <<>>, <<>>)
\* class C in np and another class C in np.a
C_np   == Obj(<<"C">>, lib_name, "class", "ok", <<p_a>>, <<>>, FALSE, <<"C">>,
              <<m_init, m_repr, m_run>>)
C_np_a == Obj(<<"C">>, np_a, "class", "ok", <<>>, <<>>, FALSE, <<>>, <<>>)
\* class D whose metaclass makes reading D.__doc__ raise
D_np   == Obj(<<"D">>, lib_name, "class", "ok", <<>>, <<>>, TRUE, <<>>, <<m_init>>)
\* a module attribute that is not callable
k_data == Obj(<<"k">>, <<>>, "data", "ValueError", <<>>, <<>>, FALSE, <<>>, <<>>)

Objects == {f_np, f_np_a, g_npx, h_os, C_np, C_np_a, D_np, k_data}

\* inspect.getmembers(mod): the module's attributes, sorted by attribute name
\* (one object may be bound to several attributes)
MemberLists == UNION {[1..n -> Objects] : n \in 0..MaxMembers}

\* include_only: None, or a list
NotSupplied == [supplied |-> FALSE, names |-> <<>>]
AllowLists  == {<<>>, << <<"f">> >>, << <<"C">> >>, << <<"f">>, <<"C">> >>}
IncludeOnlyInputs == {NotSupplied} \cup {[supplied |-> TRUE, names |-> l] : l \in AllowLists}

-----------------------------------------------------------------------------
(* analyze_library, lines 125-191 *)

\* line 134: set(include_only or ())
allow_of(inc) == {inc.names[i] : i \in 1..Len(inc.names)}

\* lines 138-140; the one that keeps everything is the variant
_want_everything(allow, name) == TRUE

_want(allow, name) == allow = {} \/ name \in allow

\* dicts keep insertion order: a sequence of [key, value] with distinct keys
dict_keys(d)   == {d[i].key : i \in 1..Len(d)}
dict_values(d) == [i \in 1..Len(d) |-> d[i].value]

\* d[key] = value, whether or not key is there (the variant)
store_always(d, key, value) ==
  IF key \in dict_keys(d)
  THEN [i \in 1..Len(d) |-> IF d[i].key = key THEN [key |-> key, value |-> value] ELSE d[i]]
  ELSE Append(d, [key |-> key, value |-> value])

\* lines 154-155, 164-165: if key not in d: d[key] = value
store_first(d, key, value) ==
  IF key \in dict_keys(d) THEN d ELSE Append(d, [key |-> key, value |-> value])

\* the variant that keys a function like a class
fn_key_qualified(obj) == obj.module \o <<".">> \o obj.name

\* line 151
fn_key(obj) == obj.name

\* line 163
class_key(cls) == cls.module \o <<".">> \o cls.name

\* the object met at lines 154 / 164 is noted, once
note(log, dict, key, obj) ==
  IF \E i \in 1..Len(log) : log[i] = [dict |-> dict, key |-> key, obj |-> obj]
  THEN log
  ELSE Append(log, [dict |-> dict, key |-> key, obj |-> obj])

\* lines 147-155: the functions loop of visit(); log is the candidates so far
RECURSIVE visit_functions(_, _, _, _)
visit_functions(members, allow, fns, log) ==
  IF members = <<>> THEN [functions |-> fns, log |-> log]
  ELSE LET obj  == Head(members)
           keep == /\ obj.kind # "data"
                   /\ startswith(obj.module, lib_name)
                   /\ _want(allow, fn_key(obj))
       IN  IF keep
           THEN visit_functions(Tail(members), allow,
                  store_first(fns, fn_key(obj), get_function_metadata(obj, obj.module)),
                  note(log, "functions", fn_key(obj), obj))
           ELSE visit_functions(Tail(members), allow, fns, log)

\* lines 157-165: the classes loop of visit(); an exception of
\* get_class_metadata ends it
RECURSIVE visit_classes(_, _, _, _)
visit_classes(members, allow, cls, log) ==
  IF members = <<>> THEN [raised |-> FALSE, classes |-> cls, log |-> log]
  ELSE LET c    == Head(members)
           keep == /\ c.kind = "class"
                   /\ startswith(c.module, lib_name)
                   /\ _want(allow, c.name)
           md   == get_class_metadata(c)
       IN  IF ~keep THEN visit_classes(Tail(members), allow, cls, log)
           ELSE IF class_key(c) \notin dict_keys(cls) /\ md.raised
           THEN [raised |-> TRUE, classes |-> cls, log |-> log]
           ELSE visit_classes(Tail(members), allow,
                  store_first(cls, class_key(c), md.rec),
                  note(log, "classes", class_key(c), c))

\* lines 143-165
visit(members, allow, fns, cls, log) ==
  LET f == visit_functions(members, allow, fns, log)
      c == visit_classes(members, allow, cls, f.log)
  IN  [raised |-> c.raised, functions |-> f.functions, classes |-> c.classes, log |-> c.log]

AnalysisResult(fns, cls) ==
  [kind |-> "result", library |-> lib_name,
   functions |-> dict_values(fns), classes |-> dict_values(cls)]

ErrorResult == [kind |-> "error", library |-> lib_name, functions |-> <<>>, classes |-> <<>>]
NoResult    == [kind |-> "none", library |-> <<>>, functions |-> <<>>, classes |-> <<>>]

InitWalk(inputs) ==
  /\ include_only \in inputs
  /\ pc = "start"
  /\ functions = <<>>
  /\ classes = <<>>
  /\ todo = <<>>
  /\ sys_modules = {}
  /\ importLog = {}
  /\ visited = <<>>
  /\ candidates = <<>>
  /\ raisedAt = "none"
  /\ result = NoResult

\* lines 130-132: the root does not load
StartRootFails ==
  /\ pc = "start"
  /\ \E beh \in ImportBehaviours \ {"ok"} :
       /\ importLog' = importLog \cup {lib_name}
       /\ pc' = "done"
       /\ result' = ErrorResult
  /\ UNCHANGED <<include_only, functions, classes, todo, sys_modules, visited,
                 candidates, raisedAt>>
  /\ UNCHANGED metaVars

\* lines 130-171: the root loads and is visited; the walk starts when no
\* allow-list restricts the call and the root is a package
StartRootLoads ==
  /\ pc = "start"
  /\ \E members \in MemberLists, has_path \in BOOLEAN :
       LET allow == allow_of(include_only)
       IN  \E v \in {visit(members, allow, functions, classes, candidates)} :
           /\ importLog' = importLog \cup {lib_name}
           /\ sys_modules' = sys_modules \cup {lib_name}
           /\ visited' = Append(visited, lib_name)
           /\ functions' = v.functions
           /\ classes' = v.classes
           /\ candidates' = v.log
           /\ pc' = IF v.raised THEN "raised" ELSE "walk"
           /\ raisedAt' = IF v.raised THEN "visit" ELSE raisedAt
           /\ todo' = IF ~v.raised /\ allow = {} /\ has_path
                      THEN iter_modules(lib_name) ELSE <<>>
  /\ UNCHANGED <<include_only, result>>
  /\ UNCHANGED metaVars


\* line 181: subname.endswith(SKIP_PATTERNS)
skipped(name) == \E suffix \in SKIP_PATTERNS : endswith(name, suffix)

\* pkgutil.walk_packages after it has yielded name: a package is imported
\* (its code runs unless it is already loaded) so that the walk can descend.
\* ImportError and Exception go to onerror; SystemExit is neither.
walk_resume(name, beh, loaded) ==
  CASE ~ispkg(name)       -> "next"
    [] name \in loaded    -> "descend"
    [] beh = "ok"         -> "descend"
    [] beh = "Exception"  -> "onerror"
    [] OTHER              -> "SystemExit"

\* the walk's part of one iteration: loaded and logged are sys.modules and the
\* import log as the loop body left them
Resume(name, beh, loaded, logged) ==
  LET r == walk_resume(name, beh, loaded)
      executes == ispkg(name) /\ name \notin loaded
  IN  /\ importLog' = IF executes THEN logged \cup {name} ELSE logged
      /\ sys_modules' = IF executes /\ beh = "ok" THEN loaded \cup {name} ELSE loaded
      /\ todo' = IF r = "descend" THEN iter_modules(name) \o Tail(todo) ELSE Tail(todo)
      /\ pc' = IF r = "SystemExit" THEN "raised" ELSE "walk"
      /\ raisedAt' = IF r = "SystemExit" THEN "import" ELSE raisedAt

\* lines 177-184: the yielded name matches SKIP_PATTERNS
IterateSkipped ==
  /\ pc = "walk"
  /\ todo # <<>>
  /\ skipped(Head(todo))
  /\ \E beh \in ImportBehaviours : Resume(Head(todo), beh, sys_modules, importLog)
  /\ UNCHANGED <<include_only, functions, classes, visited, candidates, result>>
  /\ UNCHANGED metaVars

\* lines 177-185: safe_import returns the module and visit() runs on it
IterateLoaded ==
  /\ pc = "walk"
  /\ todo # <<>>
  /\ ~skipped(Head(todo))
  /\ \E members \in MemberLists :
       LET name == Head(todo)
       IN  \E v \in {visit(members, allow_of(include_only), functions, classes, candidates)} :
           /\ visited' = Append(visited, name)
           /\ functions' = v.functions
           /\ classes' = v.classes
           /\ candidates' = v.log
           /\ IF v.raised
              THEN /\ pc' = "raised"
                   /\ raisedAt' = "visit"
                   /\ importLog' = importLog \cup {name}
                   /\ sys_modules' = sys_modules \cup {name}
                   /\ UNCHANGED todo
              ELSE Resume(name, "ok", sys_modules \cup {name}, importLog \cup {name})
  /\ UNCHANGED <<include_only, result>>
  /\ UNCHANGED metaVars

\* lines 15-29, 144-145, 185: safe_import returns None, visit(None) returns
IterateAbsent ==
  /\ pc = "walk"
  /\ todo # <<>>
  /\ ~skipped(Head(todo))
  /\ \E beh \in ImportBehaviours \ {"ok"} :
       Resume(Head(todo), beh, sys_modules, importLog \cup {Head(todo)})
  /\ UNCHANGED <<include_only, functions, classes, visited, candidates, result>>
  /\ UNCHANGED metaVars

\* lines 187-191
Return ==
  /\ pc = "walk"
  /\ todo = <<>>
  /\ pc' = "done"
  /\ result' = AnalysisResult(functions, classes)
  /\ UNCHANGED <<include_only, functions, classes, todo, sys_modules, importLog,
                 visited, candidates, raisedAt>>
  /\ UNCHANGED metaVars

-----------------------------------------------------------------------------
(* Specifications *)

\* one call of analyze_library(lib_name, include_only)
Init ==
  /\ InitWalk(IncludeOnlyInputs)
  /\ func = NoFunc
  /\ meta = NoMeta
  /\ mpc = "idle"

Next ==
  \/ StartRootFails
  \/ StartRootLoads
  \/ IterateSkipped
  \/ IterateLoaded
  \/ IterateAbsent
  \/ Return

Spec == Init /\ [][Next]_vars

\* one call of the extractor on one callable
InitExtract ==
  /\ InitMeta
  /\ InitWalk({NotSupplied})

NextExtract ==
  \/ ExtractFunction
  \/ ExtractMethod
  \/ ExtractMethodRaises

SpecMeta == InitExtract /\ [][NextExtract]_vars

-----------------------------------------------------------------------------
(* Claims about analyze_library, checked under Spec *)

Range(seq) == {seq[i] : i \in 1..Len(seq)}

RootLoaded == lib_name \in sys_modules

\* C1: when the root module loads, analyze_library returns an AnalysisResult
\* and no import of a sub-module made during the call (by safe_import or by
\* the package-tree walk) lets an exception or a SystemExit leave the call.
C1_ImportFaultsAbsorbed ==
  /\ raisedAt # "import"
  /\ (pc = "done" /\ RootLoaded) => result.kind = "result"

\* C2: a sub-module whose dotted name ends with a suffix of SKIP_PATTERNS is
\* never imported and never visited, be it a plain module or a package.
C2_SkippedNeverLoaded ==
  \A name \in ModuleNames :
    skipped(name) =>
      /\ name \notin importLog
      /\ name \notin sys_modules
      /\ name \notin Range(visited)

\* every record kept so far, and every record returned, is named in the
\* allow-list, and nothing but the root was enumerated, imported or visited
AllowListRestricts ==
  LET allow == allow_of(include_only)
  IN  /\ \A i \in 1..Len(functions) : functions[i].value.name \in allow
      /\ \A i \in 1..Len(classes) : classes[i].value.name \in allow
      /\ \A i \in 1..Len(result.functions) : result.functions[i].name \in allow
      /\ \A i \in 1..Len(result.classes) : result.classes[i].name \in allow
      /\ todo = <<>>
      /\ importLog \subseteq {lib_name}
      /\ sys_modules \subseteq {lib_name}
      /\ Range(visited) \subseteq {lib_name}

\* C3 as stated: whenever an allow-list is supplied, of any size, the result
\* holds only names of the allow-list and no sub-module is enumerated, loaded
\* or visited.
C3_AnySuppliedAllowList == include_only.supplied => AllowListRestricts

\* C3 as amended: whenever a non-empty allow-list is supplied, the result
\* holds only names of the allow-list and no sub-module is enumerated, loaded
\* or visited.
C3_NonEmptyAllowList == include_only.names # <<>> => AllowListRestricts

\* a call with a non-empty allow-list has returned a result that kept a symbol
\* of the root
C3_Witness ==
  /\ pc = "done"
  /\ include_only.names # <<>>
  /\ result.kind = "result"
  /\ result.functions # <<>>

\* C4: at every point of the traversal and in the result, no two
\* FunctionRecords have the same name and no two ClassRecords have the same
\* (module, name) pair.
C4_UniqueRecords ==
  LET fs == dict_values(functions)
      cs == dict_values(classes)
  IN  /\ \A i, j \in 1..Len(fs) : fs[i].name = fs[j].name => i = j
      /\ \A i, j \in 1..Len(cs) :
           (cs[i].module = cs[j].module /\ cs[i].name = cs[j].name) => i = j
      /\ \A i, j \in 1..Len(result.functions) :
           result.functions[i].name = result.functions[j].name => i = j
      /\ \A i, j \in 1..Len(result.classes) :
           (/\ result.classes[i].module = result.classes[j].module
            /\ result.classes[i].name = result.classes[j].name) => i = j

\* two functions named alike in different modules, and two classes named
\* alike in different modules, were met and a result was returned
C4_Witness ==
  /\ pc = "done"
  /\ \E i, j \in 1..Len(candidates) :
       /\ candidates[i].dict = "functions" /\ candidates[j].dict = "functions"
       /\ candidates[i].obj.name = candidates[j].obj.name
       /\ candidates[i].obj.module # candidates[j].obj.module
  /\ \E i, j \in 1..Len(candidates) :
       /\ candidates[i].dict = "classes" /\ candidates[j].dict = "classes"
       /\ candidates[i].obj.name = candidates[j].obj.name
       /\ candidates[i].obj.module # candidates[j].obj.module

\* the candidates of one dict whose key no earlier candidate has
FirstSeen(dict) ==
  LET first(i) == /\ candidates[i].dict = dict
                  /\ \A j \in 1..(i - 1) :
                       ~(candidates[j].dict = dict /\ candidates[j].key = candidates[i].key)
  IN  SelectSeq([i \in 1..Len(candidates) |-> i], first)

\* the modules of the library in the order of the package-tree walk: the
\* root, then each entry followed by what lies under it
RECURSIVE preorder(_)
preorder(names) ==
  IF names = <<>> THEN <<>>
  ELSE <<Head(names)>> \o preorder(iter_modules(Head(names))) \o preorder(Tail(names))

\* the modules were visited root first, then in tree-walk order
VisitedInWalkOrder ==
  LET order  == preorder(<<lib_name>>)
      pos(n) == CHOOSE k \in 1..Len(order) : order[k] = n
  IN  /\ visited # <<>> => visited[1] = lib_name
      /\ \A i, j \in 1..Len(visited) : i < j => pos(visited[i]) < pos(visited[j])

\* the dicts hold, in the order of first discovery, the record of the first
\* object met for each key
FirstSeenKept ==
  LET ff == FirstSeen("functions")
      fc == FirstSeen("classes")
  IN  /\ VisitedInWalkOrder
      /\ functions =
           [k \in 1..Len(ff) |->
              [key   |-> candidates[ff[k]].key,
               value |-> get_function_metadata(candidates[ff[k]].obj,
                                               candidates[ff[k]].obj.module)]]
      /\ classes =
           [k \in 1..Len(fc) |->
              [key   |-> candidates[fc[k]].key,
               value |-> get_class_metadata(candidates[fc[k]].obj).rec]]
      /\ pc = "done" /\ RootLoaded =>
           /\ result.functions = dict_values(functions)
           /\ result.classes = dict_values(classes)

\* a step keeps every stored record, at its place
RecordsKept ==
  /\ Len(functions) <= Len(functions')
  /\ \A i \in 1..Len(functions) : functions'[i] = functions[i]
  /\ Len(classes) <= Len(classes')
  /\ \A i \in 1..Len(classes) : classes'[i] = classes[i]

\* C5: first-seen wins: a stored FunctionRecord or ClassRecord is never
\* replaced or changed by a later visit, also when the later symbol lives in
\* another module, and the lists of the result are in first-discovery order.
C5_FirstSeenWins == [](FirstSeenKept) /\ [][RecordsKept]_vars

\* after a function f of np was stored, another f of np.a was met, and a
\* result was returned
C5_Witness ==
  /\ pc = "done"
  /\ result.kind = "result"
  /\ \E i, j \in 1..Len(candidates) :
       /\ i < j
       /\ candidates[i].dict = candidates[j].dict
       /\ candidates[i].key = candidates[j].key
       /\ candidates[i].obj # candidates[j].obj

\* C7: an exception raised while the signature or the documentation of one
\* callable (function, class or method) is extracted never aborts the
\* traversal: visit() goes on and analyze_library returns.
C7_ExtractionFaultsAbsorbed == raisedAt # "visit"

\* module path `module` is lib_name or lies under it
belongs_to_library(module) ==
  module = lib_name \/ startswith(module, lib_name \o <<".">>)

\* C8: every FunctionRecord and ClassRecord has an owning module that is the
\* library or one of its sub-modules, so a symbol re-exported from an
\* unrelated library never appears.
C8_RecordsOfLibraryOnly ==
  /\ \A i \in 1..Len(functions) : belongs_to_library(functions[i].value.module)
  /\ \A i \in 1..Len(classes) : belongs_to_library(classes[i].value.module)

-----------------------------------------------------------------------------
(* Claims about the extractor, checked under SpecMeta *)

\* what the cascade is said to return for func: the result of the first step
\* that succeeds
first_successful_step ==
  LET m == doc_match(func.doc)
      p == doc_pieces(m.group1)
  IN  CASE func.sig = "ok" ->
             [args |-> [i \in 1..Len(func.params) |-> func.params[i].name],
              opt  |-> Cardinality({i \in 1..Len(func.params) :
                                      \/ func.params[i].has_default
                                      \/ func.params[i].kind \in {"VAR_POSITIONAL", "VAR_KEYWORD"}})]
        [] func.text_sig # <<>> ->
             [args |-> parse_text_signature(func.text_sig),
              opt  |-> text_sig_opt(func.text_sig)]
        [] ~func.doc_raises /\ m.matched ->
             [args |-> [i \in 1..Len(p) |-> strip(split(p[i], "=")[1], Whitespace)],
              opt  |-> Cardinality({i \in 1..Len(p) : contains(p[i], "=")})]
        [] OTHER -> [args |-> <<>>, opt |-> 0]

\* C6: (args, optionalCount) come from the first cascade step that succeeds
\* (structured, textual, docstring), else ([], 0); when structured
\* introspection succeeds they are the parameter names and the number of
\* parameters with a default or variadic, whatever else the callable carries.
C6_FirstSuccessfulStep ==
  mpc = "function" =>
    /\ meta.args = first_successful_step.args
    /\ meta.optionalCount = first_successful_step.opt

\* C9: with neither a structured nor a textual signature and a docstring
\* starting name(args), args is what parse_text_signature gives for the
\* captured text and optionalCount is the number of its comma-separated
\* tokens that contain "=".
C9_DocstringLikeTextSignature ==
  LET m    == doc_match(func.doc)
      toks == split(m.group1, ",")
  IN  (/\ mpc = "function"
       /\ func.sig # "ok"
       /\ func.text_sig = <<>>
       /\ ~func.doc_raises
       /\ m.matched)
      => /\ meta.args = parse_text_signature(m.group1)
         /\ meta.optionalCount = Cardinality({i \in 1..Len(toks) : contains(toks[i], "=")})

\* C10: in every FunctionRecord and MethodRecord, whichever step supplied it,
\* optionalCount is a natural number not greater than the number of args.
C10_OptionalCountBounded ==
  mpc \in {"function", "method"} =>
    /\ meta.optionalCount \in Nat
    /\ meta.optionalCount <= Len(meta.args)

\* a record from a textual signature all of whose arguments are optional
C10_Witness ==
  /\ mpc = "function"
  /\ func.sig # "ok"
  /\ func.text_sig # <<>>
  /\ meta.optionalCount >= 1
  /\ meta.optionalCount = Len(meta.args)

=============================================================================
